---- MODULE Spec2Model ----
(***************************************************************************)
(* Model of pd (Arch-Package-Dictionary), src/source/paru/src/main.rs.     *)
(*                                                                         *)
(* Text is modelled as a sequence of one-character strings, so that the    *)
(* normalizers split, trim and slice it the way the Rust code does.        *)
(* Time is modelled in whole seconds.                                      *)
(***************************************************************************)
EXTENDS Integers, Sequences, FiniteSets, Bags, TLC

(***************************************************************************)
(* Bounds of the model.                                                    *)
(***************************************************************************)
\* longest version remainder enumerated exhaustively
MaxVerLen == 4
\* longest raw output enumerated exhaustively over RawAlphabet
MaxRawLen == 4
\* most blocks in a rendered well-formed output
MaxBlocks == 2
\* most rows after the header in a store output
MaxRows == 2
\* the clock visits every deadline and the MaxEarly seconds after each
MaxEarly == 0

(***************************************************************************)
(* Text helpers (Rust str methods used by the source).                     *)
(***************************************************************************)
\* all sequences over alphabet A of length at most n
RECURSIVE SeqsUpTo(_, _)
SeqsUpTo(A, n) ==
    IF n = 0 THEN {<<>>}
    ELSE LET S == SeqsUpTo(A, n - 1)
         IN  S \cup {Append(s, a) : s \in {t \in S : Len(t) = n - 1}, a \in A}

\* char::is_whitespace for the characters of the model
IsWhitespace(c) == c \in {" ", "\t", "\r", "\n"}

\* str::find(char): 1-based index of the first occurrence, 0 for None
Find(s, c) ==
    IF \E i \in 1..Len(s) : s[i] = c
    THEN CHOOSE i \in 1..Len(s) : s[i] = c /\ \A j \in 1..(i - 1) : s[j] # c
    ELSE 0

\* str::contains(&str)
Contains(s, sub) ==
    \E i \in 0..(Len(s) - Len(sub)) :
        \A j \in 1..Len(sub) : s[i + j] = sub[j]

\* str::trim
Trim(s) ==
    IF \A i \in 1..Len(s) : IsWhitespace(s[i]) THEN <<>>
    ELSE LET a == CHOOSE i \in 1..Len(s) :
                     ~IsWhitespace(s[i]) /\ \A j \in 1..(i - 1) : IsWhitespace(s[j])
             b == CHOOSE i \in 1..Len(s) :
                     ~IsWhitespace(s[i]) /\ \A j \in (i + 1)..Len(s) : IsWhitespace(s[j])
         IN  SubSeq(s, a, b)

\* str::splitn(2, c)
SplitN2(s, c) ==
    LET i == Find(s, c)
    IN  IF i = 0 THEN <<s>>
        ELSE <<SubSeq(s, 1, i - 1), SubSeq(s, i + 1, Len(s))>>

\* str::split(c)
RECURSIVE Split(_, _)
Split(s, c) ==
    LET i == Find(s, c)
    IN  IF i = 0 THEN <<s>>
        ELSE <<SubSeq(s, 1, i - 1)>> \o Split(SubSeq(s, i + 1, Len(s)), c)

\* str::lines: split at "\n", no final empty line, one trailing "\r" removed
StripCR(l) ==
    IF Len(l) > 0 /\ l[Len(l)] = "\r" THEN SubSeq(l, 1, Len(l) - 1) ELSE l

RECURSIVE Lines(_)
Lines(s) ==
    IF s = <<>> THEN <<>>
    ELSE LET i == Find(s, "\n")
         IN  IF i = 0 THEN <<StripCR(s)>>
             ELSE <<StripCR(SubSeq(s, 1, i - 1))>> \o Lines(SubSeq(s, i + 1, Len(s)))

\* char::to_lowercase on the letters of the model
LowerChar(c) ==
    CASE c = "A" -> "a"
      [] c = "G" -> "g"
      [] c = "X" -> "x"
      [] OTHER   -> c

\* str::to_lowercase
ToLower(s) == [i \in 1..Len(s) |-> LowerChar(s[i])]

(***************************************************************************)
(* PackageInfo and the defaults of the normalizers.                        *)
(***************************************************************************)
PackageInfo(n, v, d) == [name |-> n, version |-> v, description |-> d]

NoDescription ==
    <<"N", "o", " ", "d", "e", "s", "c", "r", "i", "p", "t", "i", "o", "n", ".">>

UnknownVersion == <<"U", "n", "k", "n", "o", "w", "n">>

AurPrefix == <<"a", "u", "r", "/">>

(***************************************************************************)
(* Pacman-style normalizer: search_pacman and parse_aur_output.            *)
(***************************************************************************)
\* variant: the parentheses count only when the remainder starts with "("
\* (the rule of the older snapshot src/paru/src/main.rs)
ExtractVersionLeadingParen(version_part) ==
    LET end == Find(version_part, ")")
    IN  IF Len(version_part) > 0 /\ version_part[1] = "(" /\ end # 0
        THEN IF 1 < end THEN SubSeq(version_part, 2, end - 1) ELSE version_part
        ELSE version_part

\* the version taken from the trimmed remainder after the name
ExtractVersion(version_part) ==
    LET start == Find(version_part, "(")
        end   == Find(version_part, ")")
    IN  IF start # 0 /\ end # 0
        THEN IF start < end /\ start + 1 <= Len(version_part)
             THEN SubSeq(version_part, start + 1, end - 1)
             ELSE version_part
        ELSE version_part

\* variant: the description line is taken untrimmed
NextDescriptionUntrimmed(lines, i) ==
    IF i + 1 <= Len(lines) /\ Trim(lines[i + 1]) # <<>>
    THEN lines[i + 1]
    ELSE NoDescription

\* the description taken from lines.next() after a package line at index i
NextDescription(lines, i) ==
    IF i + 1 <= Len(lines) /\ Trim(lines[i + 1]) # <<>>
    THEN Trim(lines[i + 1])
    ELSE NoDescription

\* the body shared by the two loops for one candidate line: the record
\* (as a sequence of zero or one) and the index of the next line to read
ParseCandidate(lines, i) ==
    LET parts == SplitN2(lines[i], "/")
    IN  IF Len(parts) = 2
        THEN LET name_version == SplitN2(parts[2], " ")
             IN  IF Len(name_version) = 2
                 THEN [recs |-> <<PackageInfo(Trim(name_version[1]),
                                              ExtractVersion(Trim(name_version[2])),
                                              NextDescription(lines, i))>>,
                       next |-> i + 2]
                 ELSE [recs |-> <<>>, next |-> i + 1]
        ELSE [recs |-> <<>>, next |-> i + 1]

\* the while loop of search_pacman from line index i
RECURSIVE PacmanScan(_, _)
PacmanScan(lines, i) ==
    IF i > Len(lines) THEN <<>>
    ELSE IF Find(lines[i], "/") # 0
         THEN LET c == ParseCandidate(lines, i)
              IN  c.recs \o PacmanScan(lines, c.next)
         ELSE PacmanScan(lines, i + 1)

\* search_pacman after the command has produced stdout
ParsePacmanOutput(stdout) ==
    IF stdout = <<>> THEN <<>> ELSE PacmanScan(Lines(stdout), 1)

\* the while loop of parse_aur_output from line index i
RECURSIVE AurScan(_, _)
AurScan(lines, i) ==
    IF i > Len(lines) THEN <<>>
    ELSE IF Contains(lines[i], AurPrefix)
         THEN LET c == ParseCandidate(lines, i)
              IN  c.recs \o AurScan(lines, c.next)
         ELSE AurScan(lines, i + 1)

\* parse_aur_output
ParseAurOutput(stdout) ==
    IF stdout = <<>> THEN <<>> ELSE AurScan(Lines(stdout), 1)

(***************************************************************************)
(* Store-style normalizer: search_flatpak after the command has run.       *)
(***************************************************************************)
\* variant: the comparison keeps the letter case
NameMatchesExactCase(name, term) == Contains(name, term)

\* the display name of a row is kept when it contains the lowered term
NameMatches(name, term) == Contains(ToLower(name), ToLower(term))

\* number of header rows skipped
HeaderRows == 1

\* fewest tab-separated fields of a usable row
MinFields == 4

\* zero or one record for one row after the header
FlatpakRow(line, term) ==
    IF line = <<>> THEN <<>>
    ELSE LET parts == Split(line, "\t")
         IN  IF Len(parts) >= MinFields
             THEN LET name == Trim(parts[1])
                  IN  IF ~NameMatches(name, term) THEN <<>>
                      ELSE <<PackageInfo(
                               name \o <<" ", "(">> \o Trim(parts[2]) \o <<")">>,
                               IF Trim(parts[3]) # <<>> THEN Trim(parts[3])
                                                        ELSE UnknownVersion,
                               IF Trim(parts[4]) # <<>> THEN Trim(parts[4])
                                                        ELSE NoDescription)>>
             ELSE <<>>

RECURSIVE FlatpakScan(_, _, _)
FlatpakScan(lines, i, term) ==
    IF i > Len(lines) THEN <<>>
    ELSE FlatpakRow(lines[i], term) \o FlatpakScan(lines, i + 1, term)

ParseFlatpakOutput(stdout, term) ==
    IF stdout = <<>> THEN <<>>
    ELSE FlatpakScan(Lines(stdout), HeaderRows + 1, term)

(***************************************************************************)
(* State.                                                                  *)
(***************************************************************************)
VARIABLES
    stdout,     \* normalizer run: the raw output handed to a normalizer
    nterm,      \* normalizer run: the query term
    blocks,     \* normalizer run: the blocks stdout was rendered from, if any
    items,      \* normalizer run: the entries the output was rendered from
    which,      \* normalizer run: "none" or the normalizer that has run
    records,    \* normalizer run: the records it returned
    args,       \* main: the words of the command line after the program name
    pc,         \* main / search_packages: the position of the main task
    now,        \* the clock, in seconds since the start
    wait_start, \* the time at which the current timeout(.., rx.recv()) began
    task,       \* per source: the position of its spawned task
    chan,       \* per source: its mpsc channel of capacity 1
    sent,       \* per source: what its task delivered, when, and whether late
    probe,      \* per tool: what `which <tool>` reported
    spawned,    \* per source: external processes spawned so far
    outcome,    \* per source: the match arm taken, and when
    warnings,   \* the lines written to stderr, as a bag
    ret,        \* the value search_packages returned
    exit_code,  \* the exit code of the process, -1 while it runs
    display,    \* how print_results_with_pager ended: "none" before it ran
    penv,       \* presenter run: the ResultSet and the environment handed in
    pshown      \* presenter run: what print_results_with_pager did

nvars == <<stdout, nterm, blocks, items, which, records>>

avars == <<args, pc, now, wait_start, task, chan, sent, probe, spawned,
           outcome, warnings, ret, exit_code, display>>

pvars == <<penv, pshown>>

vars == <<stdout, nterm, blocks, items, which, records, args, pc, now, wait_start,
          task, chan, sent, probe, spawned, outcome, warnings, ret, exit_code,
          display, penv, pshown>>

(***************************************************************************)
(* Raw outputs of the external tools, drawn from bounded sets.             *)
(***************************************************************************)
\* joins lines with "\n" and ends the text with "\n"
RECURSIVE JoinLines(_)
JoinLines(ls) ==
    IF ls = <<>> THEN <<>>
    ELSE Head(ls) \o <<"\n">> \o JoinLines(Tail(ls))

\* (a) one package line "aur/n <remainder>", every remainder over VerAlphabet,
\*     alone or followed by a description line
VerAlphabet == {"(", ")", "v", " "}

VersionRemainders == SeqsUpTo(VerAlphabet, MaxVerLen)

PkgLine(rem) == AurPrefix \o <<"n", " ">> \o rem

RemainderOutputs ==
    {PkgLine(r) : r \in VersionRemainders}
    \cup {PkgLine(r) \o <<"\n", " ", "d">> : r \in VersionRemainders}

\* (b) every text over RawAlphabet, bare or after "aur"
RawAlphabet == {"/", " ", "a", "(", ")", "\n"}

RawOutputs ==
    {p \o s : p \in {<<>>, <<"a", "u", "r">>}, s \in SeqsUpTo(RawAlphabet, MaxRawLen)}

\* (c) outputs rendered from blocks: a package line and its description line
Repos == {<<"c", "o", "r", "e">>, <<"a", "u", "r">>}

PkgTexts ==
    { [name |-> <<"b", "a">>, ver |-> <<"5", ".", "2", "-", "1">>,
       desc |-> <<"T", "h", "e", " ", "s", "h">>, pad |-> <<>>],
      [name |-> <<"n">>, ver |-> <<"1">>,
       desc |-> <<"d", "/", "e", " ", "f">>, pad |-> <<" ", " ">>] }

\* text: a description line; blank: a line of spaces; empty: an empty line;
\* missing: no line at all
DescKinds == {"text", "blank", "empty", "missing"}

Blocks ==
    [repo : Repos, text : PkgTexts, paren : BOOLEAN, desc : DescKinds]

RenderPkgLine(b) ==
    b.repo \o <<"/">> \o b.text.name \o <<" ">> \o b.text.pad
        \o (IF b.paren THEN <<"(">> \o b.text.ver \o <<")">> ELSE b.text.ver)
        \o b.text.pad

RenderBlock(b) ==
    <<RenderPkgLine(b)>> \o
    (CASE b.desc = "text"    -> <<<<" ", " ", " ", " ">> \o b.text.desc \o b.text.pad>>
       [] b.desc = "blank"   -> <<<<" ", " ">>>>
       [] b.desc = "empty"   -> <<<<>>>>
       [] b.desc = "missing" -> <<>>)

RECURSIVE RenderBlocks(_)
RenderBlocks(bs) ==
    IF bs = <<>> THEN <<>> ELSE RenderBlock(Head(bs)) \o RenderBlocks(Tail(bs))

BlockSeqs == UNION {[1..n -> Blocks] : n \in 1..MaxBlocks}

\* (d) store outputs: a first row and up to MaxRows rows, tab separated
Tab == <<"\t">>

RECURSIVE Row(_)
Row(fields) ==
    IF Len(fields) = 0 THEN <<>>
    ELSE IF Len(fields) = 1 THEN fields[1]
    ELSE fields[1] \o Tab \o Row(Tail(fields))

StoreRows ==
    { Row(<<n, <<"o", ".", "g">>, vd[1], vd[2]>>) :
        n \in {<<"G", "a">>, <<" ", "a", "g", "a", " ">>, <<"x">>},
        vd \in {<<<<"1">>, <<"g", "a">>>>, <<<<" ">>, <<>>>>} }
    \cup { Row(<<<<"G", "a">>, <<"o">>, <<"1">>>>),
           Row(<<<<"g", "a">>, <<>>, <<>>, <<"d">>, <<"e">>>>),
           <<>> }

StoreOutputs ==
    UNION { {JoinLines(ls) : ls \in [1..n -> StoreRows]} : n \in 1..(MaxRows + 1) }

\* (f) outputs rendered from entries: a well-formed block (package line and
\*     description line), or a package line without version text, "repo/name"
\*     or "repo/name ", with or without a description line after it
MaxItems == 3

ItemKinds == {"block", "bare", "trailing"}

Items ==
    {it \in [repo : Repos, kind : ItemKinds, text : PkgTexts, described : BOOLEAN] :
        it.kind = "block" => it.described}

DescriptionLine(text) == <<" ", " ", " ", " ">> \o text.desc \o text.pad

RenderItem(it) ==
    (CASE it.kind = "block"    -> <<it.repo \o <<"/">> \o it.text.name \o <<" ">> \o it.text.ver>>
       [] it.kind = "bare"     -> <<it.repo \o <<"/">> \o it.text.name>>
       [] it.kind = "trailing" -> <<it.repo \o <<"/">> \o it.text.name \o <<" ">>>>)
    \o (IF it.described THEN <<DescriptionLine(it.text)>> ELSE <<>>)

RECURSIVE RenderItems(_)
RenderItems(its) ==
    IF its = <<>> THEN <<>> ELSE RenderItem(Head(its)) \o RenderItems(Tail(its))

\* the entries of one output come from one repository
ItemSeqs ==
    UNION { {its \in [1..n -> Items] : \A i \in 1..n : its[i].repo = its[1].repo} :
            n \in 1..MaxItems }

\* (e) the example of the documentation: "core/bash 5.2.15-1 (shell)" and its
\*     description line
ExampleOutput ==
    <<"c", "o", "r", "e", "/", "b", "a", "s", "h", " ",
      "5", ".", "2", ".", "1", "5", "-", "1", " ", "(", "s", "h", "e", "l", "l", ")", "\n",
      " ", " ", " ", " ", "T", "h", "e", " ", "G", "N", "U">>

Terms == {<<"g", "a">>, <<"G", "A">>, <<"a", " ">>, <<"x">>}

NoTerm == <<"n">>

(***************************************************************************)
(* main, search_packages and the three source adapters.                    *)
(***************************************************************************)
Sources == <<"pacman", "aur", "flatpak">>

SourceSet == {"pacman", "aur", "flatpak"}

Tools == {"paru", "yay", "flatpak"}

\* Duration::from_secs(5) of every timeout
TIMEOUT == 5

\* the instants at which the model lets something happen: the three
\* successive deadlines and the first seconds of every wait
Instants ==
    {k * TIMEOUT + h : k \in 0..2, h \in 0..MaxEarly} \cup {3 * TIMEOUT}

NextInstant(t) == CHOOSE u \in Instants : u > t /\ \A w \in Instants : w > t => u <= w

\* what an adapter returns: Ok(records) or Err(io error)
OkResult(recs) == [ok |-> TRUE, recs |-> recs]

ErrResult == [ok |-> FALSE, recs |-> <<>>]

\* the adapter's return when its optional tool is not installed
AbsentResult == OkResult(<<>>)

\* raw outputs the external commands can produce in an aggregation run
Line(chars) == chars \o <<"\n">>

PacmanStdouts ==
    { <<>>,
      Line(<<"c", "/", "b", " ", "5">>) \o Line(<<" ", "s", "h">>) }

AurStdouts ==
    { Line(<<"a", "u", "r", "/", "n", " ", "(", "1", ")">>) \o Line(<<" ", "d">>) }

FlatpakStdouts ==
    { Line(<<"N", "\t", "A", "\t", "V", "\t", "D">>)
        \o Line(<<"G", "a", "\t", "o", ".", "g", "\t", "\t", "e">>) }

ArgLists == {<<>>, <<<<"g", "a">>>>}

\* args[1..].join(" ")
RECURSIVE JoinArgs(_)
JoinArgs(a) ==
    IF a = <<>> THEN <<>>
    ELSE IF Len(a) = 1 THEN a[1]
    ELSE a[1] \o <<" ">> \o JoinArgs(Tail(a))

search_term == JoinArgs(args)

NoMessage == [kind |-> "none", recs |-> <<>>, at |-> -1, late |-> FALSE]

EmptyChannel == [state |-> "empty", msg |-> ErrResult]

Running == exit_code = -1

InitAgg ==
    /\ args \in ArgLists
    /\ pc = "main"
    /\ now = 0
    /\ wait_start = 0
    /\ task = [s \in SourceSet |-> "unspawned"]
    /\ chan = [s \in SourceSet |-> EmptyChannel]
    /\ sent = [s \in SourceSet |-> NoMessage]
    /\ probe = [t \in Tools |-> "unprobed"]
    /\ spawned = [s \in SourceSet |-> 0]
    /\ outcome = [s \in SourceSet |-> [arm |-> "pending", at |-> -1, val |-> <<>>]]
    /\ warnings = EmptyBag
    /\ ret = [ok |-> FALSE, val |-> <<>>, set |-> FALSE]
    /\ exit_code = -1
    /\ display = "none"

Warn(by, source, what) == [by |-> by, source |-> source, what |-> what]

\* main up to the first await of search_packages: usage check, the three
\* channels, the three spawned tasks
MainStart ==
    /\ pc = "main"
    /\ IF Len(args) < 1
       THEN /\ pc' = "exit"
            /\ exit_code' = 1
            /\ warnings' = warnings (+) SetToBag({Warn("main", "none", "usage")})
            /\ UNCHANGED <<task, wait_start>>
       ELSE /\ pc' = "pacman"
            /\ task' = [s \in SourceSet |-> "start"]
            /\ wait_start' = now
            /\ UNCHANGED <<exit_code, warnings>>
    /\ UNCHANGED <<args, now, chan, sent, probe, spawned, outcome, ret>>
    /\ UNCHANGED <<nvars, pvars, display>>

\* tx.send(result).await, its error ignored: the message enters the channel
\* unless the receiver has been dropped
Deliver(s, result) ==
    /\ chan' = IF chan[s].state = "rx_dropped" THEN chan
               ELSE [chan EXCEPT ![s] = [state |-> "full", msg |-> result]]
    /\ sent' = [sent EXCEPT ![s] =
                   [kind |-> IF result.ok THEN "ok" ELSE "err",
                    recs |-> result.recs,
                    at   |-> now,
                    late |-> outcome[s].arm # "pending"]]

\* Command::output(): the spawn either fails (an io error) or starts a
\* process the task then awaits
SpawnOrFail(s, fail, awaiting) ==
    IF fail
    THEN /\ task' = [task EXCEPT ![s] = "done"]
         /\ Deliver(s, ErrResult)
         /\ UNCHANGED spawned
    ELSE /\ task' = [task EXCEPT ![s] = awaiting]
         /\ spawned' = [spawned EXCEPT ![s] = @ + 1]
         /\ UNCHANGED <<chan, sent>>

\* first poll of a task: its first command is spawned
TaskStart(s) ==
    /\ Running
    /\ task[s] = "start"
    /\ \E fail \in BOOLEAN :
          SpawnOrFail(s, fail,
                      CASE s = "pacman"  -> "await_pacman"
                        [] s = "aur"     -> "await_which_paru"
                        [] s = "flatpak" -> "await_which_flatpak")
    /\ UNCHANGED <<args, pc, now, wait_start, probe, outcome, warnings, ret, exit_code>>
    /\ UNCHANGED <<nvars, pvars, display>>

\* search_pacman: pacman -Ss has exited
PacmanExit ==
    /\ Running
    /\ task["pacman"] = "await_pacman"
    /\ \E out \in PacmanStdouts :
          Deliver("pacman", OkResult(ParsePacmanOutput(out)))
    /\ task' = [task EXCEPT !["pacman"] = "done"]
    /\ UNCHANGED <<args, pc, now, wait_start, probe, spawned, outcome, warnings,
                   ret, exit_code>>
    /\ UNCHANGED <<nvars, pvars, display>>

\* variant: the preferred helper is run without asking for the fallback
AfterWhichParuNoFallback(found) == "await_paru"

\* search_aur: `if paru_available { paru } else { which yay .. }`
AfterWhichParu(found) == IF found THEN "await_paru" ELSE "await_which_yay"

\* search_aur: `which paru` has exited; paru or `which yay` is spawned
WhichParuExit ==
    /\ Running
    /\ task["aur"] = "await_which_paru"
    /\ \E found \in BOOLEAN, fail \in BOOLEAN :
          /\ probe' = [probe EXCEPT !["paru"] = IF found THEN "present" ELSE "absent"]
          /\ SpawnOrFail("aur", fail, AfterWhichParu(found))
    /\ UNCHANGED <<args, pc, now, wait_start, outcome, warnings, ret, exit_code>>
    /\ UNCHANGED <<nvars, pvars, display>>

\* search_aur: `which yay` has exited; yay is spawned, or no helper exists
WhichYayExit ==
    /\ Running
    /\ task["aur"] = "await_which_yay"
    /\ \E found \in BOOLEAN, fail \in BOOLEAN :
          /\ probe' = [probe EXCEPT !["yay"] = IF found THEN "present" ELSE "absent"]
          /\ IF found
             THEN /\ SpawnOrFail("aur", fail, "await_yay")
                  /\ UNCHANGED warnings
             ELSE /\ warnings' = warnings (+) SetToBag({Warn("adapter", "aur", "no helper")})
                  /\ task' = [task EXCEPT !["aur"] = "done"]
                  /\ Deliver("aur", AbsentResult)
                  /\ UNCHANGED spawned
    /\ UNCHANGED <<args, pc, now, wait_start, outcome, ret, exit_code>>
    /\ UNCHANGED <<nvars, pvars, display>>

\* search_aur: paru or yay has exited
HelperExit ==
    /\ Running
    /\ task["aur"] \in {"await_paru", "await_yay"}
    /\ \E out \in AurStdouts \cup {<<>>} :
          Deliver("aur", OkResult(ParseAurOutput(out)))
    /\ task' = [task EXCEPT !["aur"] = "done"]
    /\ UNCHANGED <<args, pc, now, wait_start, probe, spawned, outcome, warnings,
                   ret, exit_code>>
    /\ UNCHANGED <<nvars, pvars, display>>

\* search_flatpak: `which flatpak` has exited
WhichFlatpakExit ==
    /\ Running
    /\ task["flatpak"] = "await_which_flatpak"
    /\ \E found \in BOOLEAN, fail \in BOOLEAN :
          /\ probe' = [probe EXCEPT !["flatpak"] = IF found THEN "present" ELSE "absent"]
          /\ IF found
             THEN /\ SpawnOrFail("flatpak", fail, "await_flatpak")
                  /\ UNCHANGED warnings
             ELSE /\ warnings' = warnings (+) SetToBag({Warn("adapter", "flatpak", "not found")})
                  /\ task' = [task EXCEPT !["flatpak"] = "done"]
                  /\ Deliver("flatpak", AbsentResult)
                  /\ UNCHANGED spawned
    /\ UNCHANGED <<args, pc, now, wait_start, outcome, ret, exit_code>>
    /\ UNCHANGED <<nvars, pvars, display>>

\* search_flatpak: flatpak search has exited
FlatpakExit ==
    /\ Running
    /\ task["flatpak"] = "await_flatpak"
    /\ \E out \in FlatpakStdouts \cup {<<>>} :
          Deliver("flatpak", OkResult(ParseFlatpakOutput(out, search_term)))
    /\ task' = [task EXCEPT !["flatpak"] = "done"]
    /\ UNCHANGED <<args, pc, now, wait_start, probe, spawned, outcome, warnings,
                   ret, exit_code>>
    /\ UNCHANGED <<nvars, pvars, display>>

\* a task panics before it sends: its sender is dropped, the channel closes
TaskCrash(s) ==
    /\ Running
    /\ task[s] \notin {"unspawned", "done", "crashed"}
    /\ task' = [task EXCEPT ![s] = "crashed"]
    /\ chan' = IF chan[s].state = "rx_dropped" THEN chan
               ELSE [chan EXCEPT ![s] = [state |-> "closed", msg |-> ErrResult]]
    /\ sent' = [sent EXCEPT ![s] = [kind |-> "crash", recs |-> <<>>, at |-> now,
                                    late |-> outcome[s].arm # "pending"]]
    /\ UNCHANGED <<args, pc, now, wait_start, probe, spawned, outcome, warnings,
                   ret, exit_code>>
    /\ UNCHANGED <<nvars, pvars, display>>

\* variant: the receive is awaited without a deadline
RecvArmNoDeadline(ch, elapsed) ==
    IF ch.state = "full" THEN (IF ch.msg.ok THEN "result" ELSE "error")
    ELSE IF ch.state = "closed" THEN "closed"
    ELSE "waiting"

\* variant: the deadline is looked at before the receive is polled
RecvArmDeadlineFirst(ch, elapsed) ==
    IF elapsed >= TIMEOUT THEN "timeout"
    ELSE IF ch.state = "full" THEN (IF ch.msg.ok THEN "result" ELSE "error")
    ELSE IF ch.state = "closed" THEN "closed"
    ELSE "waiting"

\* the arm of `match timeout(5 s, rx.recv()).await`: the receive is polled
\* before the deadline is looked at
RecvArm(ch, elapsed) ==
    IF ch.state = "full" THEN (IF ch.msg.ok THEN "result" ELSE "error")
    ELSE IF ch.state = "closed" THEN "closed"
    ELSE IF elapsed >= TIMEOUT THEN "timeout"
    ELSE "waiting"

\* the value the arm evaluates to
ArmValue(arm, ch) == IF arm = "result" THEN ch.msg.recs ELSE <<>>

\* the warning the arm prints, if any
ArmWarnings(arm, s) ==
    CASE arm = "result"  -> EmptyBag
      [] arm = "error"   -> SetToBag({Warn("aggregator", s, "failed")})
      [] arm = "closed"  -> SetToBag({Warn("aggregator", s, "closed")})
      [] arm = "timeout" -> SetToBag({Warn("aggregator", s, "timed out")})

\* the position after the wait on source s
AfterWait(s) ==
    CASE s = "pacman"  -> "aur"
      [] s = "aur"     -> "flatpak"
      [] s = "flatpak" -> "returned"

\* variant: an adapter's error is propagated with `?`
ReturnValuePropagating(vals, arms) ==
    [ok |-> \A s \in SourceSet : arms[s] # "error",
     val |-> <<vals["pacman"], vals["aur"], vals["flatpak"]>>,
     set |-> TRUE]

\* Ok((pacman_results, aur_results, flatpak_results))
ReturnValue(vals, arms) ==
    [ok |-> TRUE,
     val |-> <<vals["pacman"], vals["aur"], vals["flatpak"]>>,
     set |-> TRUE]

\* variant: the timeout arm aborts the task it stopped waiting for
TaskAbortedOnTimeout(arm, t) ==
    IF arm = "timeout" /\ t \notin {"done", "crashed"} THEN "crashed" ELSE t

\* what a match arm does to the spawned task: nothing. The JoinHandle was
\* dropped at the spawn, and the timeout only drops the recv() future
TaskAfterArm(arm, t) == t

Resolvable == pc \in SourceSet /\ RecvArm(chan[pc], now - wait_start) # "waiting"

\* one `let x_results = match timeout(..).await { .. };` of search_packages;
\* the last one is followed by the return, which drops the three receivers
Resolve(s) ==
    /\ pc = s
    /\ LET arm == RecvArm(chan[s], now - wait_start)
           res == [outcome EXCEPT ![s] = [arm |-> arm, at |-> now,
                                          val |-> ArmValue(arm, chan[s])]]
       IN  /\ arm # "waiting"
           /\ outcome' = res
           /\ warnings' = warnings (+) ArmWarnings(arm, s)
           /\ pc' = AfterWait(s)
           /\ wait_start' = now
           /\ task' = [task EXCEPT ![s] = TaskAfterArm(arm, @)]
           /\ IF s = "flatpak"
              THEN /\ ret' = ReturnValue([x \in SourceSet |-> res[x].val],
                                         [x \in SourceSet |-> res[x].arm])
                   /\ chan' = [x \in SourceSet |-> [state |-> "rx_dropped",
                                                     msg |-> ErrResult]]
              ELSE /\ chan' = [chan EXCEPT ![s] = [state |-> "taken", msg |-> ErrResult]]
                   /\ UNCHANGED ret
    /\ UNCHANGED <<args, now, sent, probe, spawned, exit_code>>
    /\ UNCHANGED <<nvars, pvars, display>>

(***************************************************************************)
(* Presenter: print_results_with_pager and get_terminal_height.            *)
(***************************************************************************)
\* format_package_count
FormatPackageCount(count) ==
    IF count = 1 THEN <<1, "package">> ELSE <<count, "packages">>

\* the summary line and the blank line after it
SummaryLines(results) ==
    << <<"summary", FormatPackageCount(Len(results[1])),
                    FormatPackageCount(Len(results[2])),
                    FormatPackageCount(Len(results[3]))>>,
       <<>> >>

\* the four lines pushed for one package
RECURSIVE PackageLines(_)
PackageLines(pkgs) ==
    IF pkgs = <<>> THEN <<>>
    ELSE << <<"name", Head(pkgs).name>>,
            <<"description", Head(pkgs).description>>,
            <<"version", Head(pkgs).version>>,
            <<>> >> \o PackageLines(Tail(pkgs))

\* print_category_results: nothing for an empty category
CategoryLines(category_name, pkgs) ==
    IF pkgs = <<>> THEN <<>>
    ELSE << <<"header", category_name>>, <<"underline", category_name>> >>
         \o PackageLines(pkgs)

\* the lines of the output buffer
RenderReport(results) ==
    SummaryLines(results)
        \o CategoryLines("Pacman", results[1])
        \o CategoryLines("AUR", results[2])
        \o CategoryLines("Flatpak", results[3])

\* most rows `stty size` reports in the model
MaxHeight == 26

\* most packages of one source in a presenter run
MaxPkgs == 2

\* what `stty size` can give: a row count, or nothing to parse one from
SttyFailures == {"spawn_failed", "no_output", "not_a_number"}

SttyOutcomes ==
    {[kind |-> k, rows |-> 0] : k \in SttyFailures}
        \cup {[kind |-> "rows", rows |-> h] : h \in 0..MaxHeight}

\* the terminals of an aggregation run: no size reported, or no rows
AggSttyOutcomes ==
    {t \in SttyOutcomes : t.kind = "no_output" \/ (t.kind = "rows" /\ t.rows = 0)}

\* get_terminal_height: Some(rows) or None
GetTerminalHeight(stty) ==
    IF stty.kind = "rows" THEN [some |-> TRUE, rows |-> stty.rows]
    ELSE [some |-> FALSE, rows |-> 0]

\* the fallback of `match get_terminal_height()`
DefaultHeight == 24

\* the lines kept free below the report
Margin == 2

\* `output_lines > term_height - 2` on usize: with overflow checks the
\* subtraction panics below Margin; without them it wraps to a value near
\* 2^64, which no line count exceeds
UsePager(output_lines, term_height, overflow_checks) ==
    IF term_height >= Margin THEN
        IF output_lines > term_height - Margin THEN "yes" ELSE "no"
    ELSE IF overflow_checks THEN "panic" ELSE "no"

\* what `which less` and the spawn of less can give
LessOutcomes == {"found", "absent", "which_failed", "spawn_failed"}

\* the pagers of an aggregation run
AggLessOutcomes == {"found", "absent"}

\* print_results_with_pager has not run
NotShown == [mode |-> "none", decided |-> FALSE, piped |-> <<>>, printed |-> <<>>]

\* print_results_with_pager from the rendered buffer on
Present(results, stty, overflow_checks, less) ==
    LET output == RenderReport(results)
        h      == GetTerminalHeight(stty)
        term_height == IF h.some THEN h.rows ELSE DefaultHeight
        use_pager   == UsePager(Len(output), term_height, overflow_checks)
    IN  IF use_pager = "panic"
        THEN [mode |-> "panic", decided |-> FALSE, piped |-> <<>>, printed |-> <<>>]
        ELSE IF use_pager = "yes"
        THEN CASE less = "found" ->
                    [mode |-> "pager", decided |-> TRUE, piped |-> output, printed |-> <<>>]
               [] less = "spawn_failed" ->
                    [mode |-> "panic", decided |-> TRUE, piped |-> <<>>, printed |-> <<>>]
               [] OTHER ->
                    [mode |-> "direct", decided |-> TRUE, piped |-> <<>>, printed |-> output]
        ELSE [mode |-> "direct", decided |-> TRUE, piped |-> <<>>, printed |-> output]

\* the exit code of the process after the presenter: a panic in main ends
\* the process with status 101
ExitCodeOf(mode) == IF mode = "panic" THEN 101 ELSE 0

\* main after block_on: Ok -> print_results_with_pager, Err -> exit(1)
MainFinish ==
    /\ pc = "returned"
    /\ pc' = "exit"
    /\ IF ret.ok
       THEN /\ \E stty \in AggSttyOutcomes, checks \in BOOLEAN, less \in AggLessOutcomes :
                  LET shown == Present(ret.val, stty, checks, less)
                  IN  /\ display' = shown.mode
                      /\ exit_code' = ExitCodeOf(shown.mode)
            /\ UNCHANGED warnings
       ELSE /\ exit_code' = 1
            /\ warnings' = warnings (+) SetToBag({Warn("main", "none", "failed to search")})
            /\ UNCHANGED display
    /\ UNCHANGED <<args, now, wait_start, task, chan, sent, probe, spawned,
                   outcome, ret>>
    /\ UNCHANGED <<nvars, pvars>>

\* the clock moves to the next instant; the main task is woken without delay, so no time passes
\* while it can take a step
Tick ==
    /\ Running
    /\ pc \in SourceSet
    /\ ~Resolvable
    /\ \E u \in Instants : u > now
    /\ now' = NextInstant(now)
    /\ UNCHANGED <<args, pc, wait_start, task, chan, sent, probe, spawned,
                   outcome, warnings, ret, exit_code>>
    /\ UNCHANGED <<nvars, pvars, display>>

NextAgg ==
    \/ MainStart
    \/ \E s \in SourceSet : TaskStart(s)
    \/ PacmanExit
    \/ WhichParuExit
    \/ WhichYayExit
    \/ HelperExit
    \/ WhichFlatpakExit
    \/ FlatpakExit
    \/ \E s \in SourceSet : TaskCrash(s)
    \/ \E s \in SourceSet : Resolve(s)
    \/ MainFinish
    \/ Tick

IdleNorm ==
    /\ stdout = <<>>
    /\ nterm = NoTerm
    /\ blocks = <<>>
    /\ items = <<>>
    /\ which = "none"
    /\ records = <<>>

IdlePresenter ==
    /\ penv = [results |-> <<<<>>, <<>>, <<>>>>,
               stty |-> [kind |-> "no_output", rows |-> 0],
               overflow_checks |-> FALSE, less |-> "absent"]
    /\ pshown = NotShown

Init == InitAgg /\ IdleNorm /\ IdlePresenter

Next == NextAgg

Spec == Init /\ [][Next]_vars

\* the runtime polls the main task whenever it can take a step, and time
\* passes; nothing is assumed of the three tasks and of the commands they
\* wait for, which may never finish
SpecLive ==
    /\ Spec
    /\ WF_vars(MainStart)
    /\ WF_vars(\E s \in SourceSet : Resolve(s))
    /\ WF_vars(Tick)

(***************************************************************************)
(* Normalizer runs: one normalizer applied to one raw output.              *)
(***************************************************************************)
InitNorm ==
    /\ InitAgg
    /\ IdlePresenter
    /\ args = <<>>
    /\ which = "none"
    /\ records = <<>>
    /\ \/ /\ stdout \in RemainderOutputs \cup RawOutputs \cup {ExampleOutput}
          /\ nterm = NoTerm
          /\ blocks = <<>>
          /\ items = <<>>
       \/ /\ blocks \in BlockSeqs
          /\ stdout = JoinLines(RenderBlocks(blocks))
          /\ nterm = NoTerm
          /\ items = <<>>
       \/ /\ stdout \in StoreOutputs
          /\ nterm \in Terms
          /\ blocks = <<>>
          /\ items = <<>>
       \/ /\ items \in ItemSeqs
          /\ stdout = JoinLines(RenderItems(items))
          /\ nterm = NoTerm
          /\ blocks = <<>>

NormPacman ==
    /\ which = "none"
    /\ which' = "pacman"
    /\ records' = ParsePacmanOutput(stdout)
    /\ UNCHANGED <<stdout, nterm, blocks, items>>
    /\ UNCHANGED <<avars, pvars>>

NormAur ==
    /\ which = "none"
    /\ which' = "aur"
    /\ records' = ParseAurOutput(stdout)
    /\ UNCHANGED <<stdout, nterm, blocks, items>>
    /\ UNCHANGED <<avars, pvars>>

NormFlatpak ==
    /\ which = "none"
    /\ which' = "flatpak"
    /\ records' = ParseFlatpakOutput(stdout, nterm)
    /\ UNCHANGED <<stdout, nterm, blocks, items>>
    /\ UNCHANGED <<avars, pvars>>

NextNorm == NormPacman \/ NormAur \/ NormFlatpak

SpecNorm == InitNorm /\ [][NextNorm]_vars

(***************************************************************************)
(* Presenter runs: print_results_with_pager on one ResultSet in one        *)
(* environment.                                                            *)
(***************************************************************************)
SomePackage == PackageInfo(<<"p">>, <<"1">>, <<"d">>)

PackageLists == {[i \in 1..n |-> SomePackage] : n \in 0..MaxPkgs}

ResultSets == {<<a, b, c>> : a \in PackageLists, b \in PackageLists, c \in PackageLists}

InitPresent ==
    /\ InitAgg
    /\ args = <<>>
    /\ IdleNorm
    /\ penv \in [results : ResultSets, stty : SttyOutcomes,
                 overflow_checks : BOOLEAN, less : LessOutcomes]
    /\ pshown = NotShown

PresentRun ==
    /\ pshown = NotShown
    /\ pshown' = Present(penv.results, penv.stty, penv.overflow_checks, penv.less)
    /\ UNCHANGED penv
    /\ UNCHANGED <<avars, nvars>>

NextPresent == PresentRun

SpecPresent == InitPresent /\ [][NextPresent]_vars

(***************************************************************************)
(* Properties of the presenter, checked under SpecPresent.                 *)
(***************************************************************************)
\* the number of lines of the report of a ResultSet
ReportLines(results) ==
    LET part(i) == IF results[i] = <<>> THEN 0 ELSE 2 + 4 * Len(results[i])
    IN  2 + part(1) + part(2) + part(3)

\* the height the presenter works with
HeightOf(stty) == IF stty.kind = "rows" THEN stty.rows ELSE 24

\* C11: for every height h the probe reports (0 and 1 included, 24 when it
\* reports nothing) and every report of L lines, the presenter decides
\* without crashing, pipes the whole report into the pager when L > h - 2
\* and less is available, and prints it directly otherwise.
C11_PagerDecision ==
    pshown # NotShown =>
        LET L == ReportLines(penv.results)
            h == HeightOf(penv.stty)
        IN  /\ pshown.decided
            /\ (L > h - 2 /\ penv.less = "found") =>
                  pshown.mode = "pager" /\ pshown.piped = RenderReport(penv.results)
            /\ (~(L > h - 2) \/ penv.less \in {"absent", "which_failed"}) =>
                  pshown.mode = "direct" /\ pshown.printed = RenderReport(penv.results)

(***************************************************************************)
(* Properties of the normalizers, checked under SpecNorm.                  *)
(***************************************************************************)
PacmanStyle == which \in {"pacman", "aur"}

\* stdout starts with the package line "aur/n <remainder>"
PkgPrefixLen == Len(PkgLine(<<>>))

HasPkgPrefix ==
    /\ Len(stdout) >= PkgPrefixLen
    /\ SubSeq(stdout, 1, PkgPrefixLen) = PkgLine(<<>>)

\* the remainder of that first line after the name, surrounding blanks removed
FirstLineEnd ==
    IF \E i \in 1..Len(stdout) : stdout[i] = "\n"
    THEN (CHOOSE i \in 1..Len(stdout) :
              stdout[i] = "\n" /\ \A j \in 1..(i - 1) : stdout[j] # "\n") - 1
    ELSE Len(stdout)

Remainder == Trim(SubSeq(stdout, PkgPrefixLen + 1, FirstLineEnd))

HasChar(s, c) == \E i \in 1..Len(s) : s[i] = c

FirstPos(s, c) == CHOOSE i \in 1..Len(s) : s[i] = c /\ \A j \in 1..(i - 1) : s[j] # c

ExampleRecord ==
    PackageInfo(<<"b", "a", "s", "h">>, <<"s", "h", "e", "l", "l">>,
                <<"T", "h", "e", " ", "G", "N", "U">>)

\* C6: in the pacman-style normalizer the version of a package line is the
\* remainder after the name when the remainder has no parentheses, the text
\* between the first "(" and the first ")" when the "(" comes first, and the
\* whole remainder when the ")" comes first; "core/bash 5.2.15-1 (shell)"
\* yields name "bash" and version "shell".
C6_VersionRule ==
    /\ (PacmanStyle /\ HasPkgPrefix) =>
          /\ Len(records) >= 1
          /\ records[1].name = <<"n">>
          /\ LET r == Remainder
                 v == records[1].version
             IN  /\ (~HasChar(r, "(") /\ ~HasChar(r, ")")) => v = r
                 /\ (HasChar(r, "(") /\ HasChar(r, ")")
                       /\ FirstPos(r, "(") < FirstPos(r, ")"))
                      => v = SubSeq(r, FirstPos(r, "(") + 1, FirstPos(r, ")") - 1)
                 /\ (HasChar(r, "(") /\ HasChar(r, ")")
                       /\ FirstPos(r, ")") < FirstPos(r, "("))
                      => v = r
    /\ (which = "pacman" /\ stdout = ExampleOutput) => records = <<ExampleRecord>>

\* a positional version followed by a parenthesised text: the text wins
C6_Witness ==
    /\ which = "aur"
    /\ HasPkgPrefix
    /\ Remainder = <<"v", "(", "v", ")">>
    /\ records[1].version = <<"v">>

\* the blocks of a rendered output are all complete: each has its description
AllDescribed == \A i \in 1..Len(blocks) : blocks[i].desc = "text"

AllAur == \A i \in 1..Len(blocks) : blocks[i].repo = <<"a", "u", "r">>

\* the record a block stands for
BlockRecord(b) == PackageInfo(b.text.name, b.text.ver, b.text.desc)

\* C7: a well-formed output of N blocks (package line, description line)
\* gives exactly N records, in block order, whose name, version and
\* description are the trimmed source texts.
C7_WellFormedBlocks ==
    (/\ blocks # <<>>
     /\ AllDescribed
     /\ \/ which = "pacman"
        \/ which = "aur" /\ AllAur)
    => records = [i \in 1..Len(blocks) |-> BlockRecord(blocks[i])]

C7_Witness ==
    /\ which = "pacman"
    /\ Len(blocks) = 2
    /\ AllDescribed
    /\ blocks[1].text # blocks[2].text
    /\ blocks[1].paren /\ ~blocks[2].paren
    /\ Len(records) = 2
    /\ records[2] = BlockRecord(blocks[2])

\* C8: a package line whose description line is missing or blank yields a
\* record with the description "No description.", and every package of the
\* output is still produced as its own record.
C8_MissingDescription ==
    (which = "pacman" /\ blocks # <<>>) =>
        /\ Len(records) = Len(blocks)
        /\ \A i \in 1..Len(blocks) :
              /\ records[i].name = blocks[i].text.name
              /\ blocks[i].desc # "text" => records[i].description = NoDescription

\* C9: every record of every normalizer has a non-empty name, version and
\* description.
C9_FieldsNonEmpty ==
    \A i \in 1..Len(records) :
        /\ records[i].name # <<>>
        /\ records[i].version # <<>>
        /\ records[i].description # <<>>

\* the rows of a store output and their tab-separated fields
StoreLines == Lines(stdout)

TabCount(line) == Cardinality({i \in 1..Len(line) : line[i] = "\t"})

\* position of the k-th tab of a line; 0 before the first field, Len + 1
\* after the last one
TabAt(line, k) ==
    IF k = 0 THEN 0
    ELSE IF k > TabCount(line) THEN Len(line) + 1
    ELSE CHOOSE i \in 1..Len(line) :
            /\ line[i] = "\t"
            /\ Cardinality({j \in 1..i : line[j] = "\t"}) = k

FieldOf(line, k) == Trim(SubSeq(line, TabAt(line, k - 1) + 1, TabAt(line, k) - 1))

SameLetter(a, b) ==
    \/ a = b
    \/ {a, b} \in {{"a", "A"}, {"g", "G"}, {"x", "X"}}

ContainsIgnoringCase(s, sub) ==
    \E i \in 0..(Len(s) - Len(sub)) :
        \A j \in 1..Len(sub) : SameLetter(s[i + j], sub[j])

Selected ==
    {i \in 2..Len(StoreLines) :
        /\ TabCount(StoreLines[i]) >= 3
        /\ ContainsIgnoringCase(FieldOf(StoreLines[i], 1), nterm)}

\* the k-th selected row
SelectedRow(k) ==
    StoreLines[CHOOSE i \in Selected : Cardinality({j \in Selected : j <= i}) = k]

StoreRecord(line) ==
    PackageInfo(FieldOf(line, 1) \o <<" ", "(">> \o FieldOf(line, 2) \o <<")">>,
                IF FieldOf(line, 3) = <<>> THEN UnknownVersion ELSE FieldOf(line, 3),
                IF FieldOf(line, 4) = <<>> THEN NoDescription ELSE FieldOf(line, 4))

\* C10: the store normalizer skips the first row; a later row yields a
\* record exactly when it has at least 4 tab-separated fields and its display
\* name contains the term, letter case ignored; the record is named
\* "<name> (<application identifier>)" and an empty version or description
\* becomes "Unknown" or "No description.".
C10_StoreFilter ==
    which = "flatpak" =>
        /\ Len(records) = Cardinality(Selected)
        /\ \A k \in 1..Len(records) : records[k] = StoreRecord(SelectedRow(k))

\* a matching first row is skipped, a row whose description alone contains
\* the term is left out, and a row matching in another letter case is kept
C10_Witness ==
    /\ which = "flatpak"
    /\ nterm = <<"G", "A">>
    /\ Len(StoreLines) = 3
    /\ FieldOf(StoreLines[1], 1) = <<"G", "a">>
    /\ TabCount(StoreLines[1]) = 3
    /\ FieldOf(StoreLines[2], 1) = <<"x">>
    /\ FieldOf(StoreLines[2], 4) = <<"g", "a">>
    /\ FieldOf(StoreLines[3], 1) = <<"a", "g", "a">>
    /\ FieldOf(StoreLines[3], 3) = <<>>
    /\ Len(records) = 1
    /\ records[1].version = UnknownVersion

(***************************************************************************)
(* Properties of the aggregation, checked under Spec.                      *)
(***************************************************************************)
Resolved(s) == outcome[s].arm # "pending"

\* what the task of s had delivered when the wait on s ended
InTime(s) == sent[s].kind # "none" /\ ~sent[s].late

AggregatorWarnings(s) ==
    CopiesIn(Warn("aggregator", s, "failed"), warnings)
    + CopiesIn(Warn("aggregator", s, "closed"), warnings)
    + CopiesIn(Warn("aggregator", s, "timed out"), warnings)

IsRecord(r) ==
    /\ DOMAIN r = {"name", "version", "description"}
    /\ \A f \in DOMAIN r : r[f] = [i \in 1..Len(r[f]) |-> r[f][i]]

\* C1: search_packages returns Ok with three sequences of records whatever
\* the three sources did, and main never takes its Err branch: a run with a
\* search term reaches print_results_with_pager and never exits with code 1.
C1_NeverFails ==
    /\ ret.set =>
          /\ ret.ok
          /\ Len(ret.val) = 3
          /\ \A i \in 1..3 : \A k \in 1..Len(ret.val[i]) : IsRecord(ret.val[i][k])
    /\ pc = "returned" => ret.set
    /\ (pc = "exit" /\ Len(args) >= 1) =>
          /\ exit_code # 1
          /\ display # "none"
          /\ CopiesIn(Warn("main", "none", "failed to search"), warnings) = 0

\* one source timed out, one returned an error, one crashed, and the run
\* still ended with exit code 0
C1_Witness ==
    /\ pc = "exit"
    /\ exit_code = 0
    /\ outcome["pacman"].arm = "timeout"
    /\ outcome["aur"].arm = "error"
    /\ outcome["flatpak"].arm = "closed"
    /\ ret.val = <<<<>>, <<>>, <<>>>>

\* C2: every source has its own 5 second wait, counted from the start, and
\* a result is accepted the moment its task delivers it, however long the
\* other sources take.
C2_IndependentWaits ==
    \A s \in SourceSet :
        Resolved(s) =>
            /\ outcome[s].at <= TIMEOUT
            /\ InTime(s) => outcome[s].at = sent[s].at

\* C3: whether the slot of a source holds its records is decided by its own
\* completion time and value alone: records delivered within 5 seconds are in
\* the slot, and the slot is empty for an error, a crash or a later delivery.
C3_IndependentOutcomes ==
    \A s \in SourceSet :
        Resolved(s) =>
            /\ (sent[s].kind = "ok" /\ sent[s].at < TIMEOUT) => outcome[s].val = sent[s].recs
            /\ (sent[s].kind # "ok" \/ sent[s].at > TIMEOUT) => outcome[s].val = <<>>

\* the arm the resolution policy prescribes for what the task had delivered
PolicyArm(s) ==
    IF InTime(s) /\ sent[s].kind = "ok" THEN "result"
    ELSE IF InTime(s) /\ sent[s].kind = "err" THEN "error"
    ELSE IF InTime(s) /\ sent[s].kind = "crash" THEN "closed"
    ELSE "timeout"

PolicyWarning(s) ==
    CASE PolicyArm(s) = "error"   -> "failed"
      [] PolicyArm(s) = "closed"  -> "closed"
      [] PolicyArm(s) = "timeout" -> "timed out"
      [] OTHER -> "none"

\* C4: a source is resolved as result before error before crash before
\* timeout; its slot is exactly the sequence its adapter returned when the
\* adapter completed with a result, and empty with one warning naming the
\* source otherwise; the slots are in the order pacman, aur, flatpak whatever
\* the order of completion.
C4_ResolutionPolicy ==
    /\ \A s \in SourceSet :
          Resolved(s) =>
             /\ outcome[s].arm = PolicyArm(s)
             /\ outcome[s].val = IF PolicyArm(s) = "result" THEN sent[s].recs ELSE <<>>
             /\ AggregatorWarnings(s) = IF PolicyArm(s) = "result" THEN 0 ELSE 1
             /\ PolicyArm(s) # "result" =>
                   CopiesIn(Warn("aggregator", s, PolicyWarning(s)), warnings) = 1
    /\ ret.set =>
          \A i \in 1..3 :
             ret.val[i] = IF PolicyArm(Sources[i]) = "result"
                          THEN sent[Sources[i]].recs ELSE <<>>

\* flatpak and aur completed before pacman, which completed at its deadline,
\* each with records
C4_Witness ==
    /\ pc = "exit"
    /\ sent["flatpak"].at < sent["pacman"].at
    /\ sent["aur"].at < sent["pacman"].at
    /\ sent["pacman"].at = TIMEOUT
    /\ \A i \in 1..3 : ret.val[i] # <<>> /\ ret.val[i] = sent[Sources[i]].recs
    /\ ret.val[1] # ret.val[2] /\ ret.val[2] # ret.val[3]

\* C5: an absent optional tool makes its adapter return an empty result, not
\* an error; yay is probed only after paru was found absent; the slot of that
\* source is then empty, the other slots hold what their adapters delivered,
\* and the run ends on the success path: the report is displayed and the
\* exit code is 0.
C5_AbsentTool ==
    /\ (probe["yay"] # "unprobed" \/ task["aur"] \in {"await_which_yay", "await_yay"})
          => probe["paru"] = "absent"
    /\ (probe["yay"] = "absent" /\ sent["aur"].kind \in {"ok", "err"})
          => sent["aur"].kind = "ok" /\ sent["aur"].recs = <<>>
    /\ (probe["flatpak"] = "absent" /\ sent["flatpak"].kind \in {"ok", "err"})
          => sent["flatpak"].kind = "ok" /\ sent["flatpak"].recs = <<>>
    /\ (pc = "exit" /\ (probe["yay"] = "absent" \/ probe["flatpak"] = "absent")) =>
          /\ exit_code = 0
          /\ display \in {"direct", "pager"}
          /\ ret.ok
          /\ probe["yay"] = "absent" => ret.val[2] = <<>>
          /\ probe["flatpak"] = "absent" => ret.val[3] = <<>>
          /\ \A i \in 1..3 :
                (InTime(Sources[i]) /\ sent[Sources[i]].kind = "ok")
                    => ret.val[i] = sent[Sources[i]].recs

\* the adapter of source s has returned, with records or with an error
AdapterReturned(s) == sent[s].kind \in {"ok", "err"}

\* C12 as stated: an adapter invocation spawns one or two external
\* processes, never none and never three or more.
C12_OneOrTwoProcesses ==
    \A s \in SourceSet : AdapterReturned(s) => spawned[s] \in {1, 2}

\* C12, amended: an adapter invocation spawns at most three processes
\* (pacman at most one, flatpak at most two, the helper adapter at most
\* three); an adapter that returns Ok has spawned exactly one (pacman; store
\* tool absent), two (store tool present; preferred helper present; no helper
\* at all) or three (preferred helper absent, fallback present); fewer, down
\* to none, only when a spawn failed and the adapter returned that error.
C12_SpawnCounts ==
    /\ spawned["pacman"] <= 1 /\ spawned["flatpak"] <= 2 /\ spawned["aur"] <= 3
    /\ sent["pacman"].kind = "ok" => spawned["pacman"] = 1
    /\ sent["flatpak"].kind = "ok" =>
          spawned["flatpak"] = IF probe["flatpak"] = "present" THEN 2 ELSE 1
    /\ sent["aur"].kind = "ok" =>
          /\ probe["paru"] = "present" => spawned["aur"] = 2
          /\ probe["paru"] = "absent" =>
                /\ probe["yay"] \in {"present", "absent"}
                /\ spawned["aur"] = IF probe["yay"] = "present" THEN 3 ELSE 2
    /\ sent["pacman"].kind = "err" => spawned["pacman"] = 0
    /\ sent["flatpak"].kind = "err" => spawned["flatpak"] \in {0, 1}
    /\ sent["aur"].kind = "err" => spawned["aur"] \in {0, 1, 2}

\* the helper adapter ran which paru, which yay and yay, while pacman could
\* not be started at all
C12_Witness ==
    /\ sent["aur"].kind = "ok"
    /\ probe["paru"] = "absent"
    /\ probe["yay"] = "present"
    /\ spawned["aur"] = 3
    /\ sent["pacman"].kind = "err"
    /\ spawned["pacman"] = 0

\* the position of source s in the ResultSet
SlotOf(s) == CHOOSE i \in 1..3 : Sources[i] = s

\* the task of source s sends its result in this step
Delivers(s) == sent[s].kind = "none" /\ sent'[s].kind \in {"ok", "err"}

\* C13: the timeout only stops the wait. Resolving a source leaves its task
\* and the processes it spawned as they are; a resolved slot and the returned
\* ResultSet never change afterwards; the slot of a timed out source is empty
\* in the ResultSet; and a delivery after the resolution completes at once
\* (the task is done) without touching anything of the main task.
C13_LateResultDiscarded ==
    [][\A s \in SourceSet :
          /\ (outcome[s].arm = "pending" /\ outcome'[s].arm # "pending") =>
                task'[s] = task[s] /\ spawned' = spawned /\ sent' = sent
          /\ outcome[s].arm # "pending" => outcome'[s] = outcome[s]
          /\ ret.set => ret' = ret
          /\ outcome'[s].arm = "timeout" => outcome'[s].val = <<>>
          /\ ret'.set => ret'.val[SlotOf(s)] = outcome'[s].val
          /\ (Delivers(s) /\ outcome[s].arm # "pending") =>
                /\ task'[s] = "done"
                /\ sent'[s].late
                /\ chan'[s].state \in {"full", "rx_dropped"}
                /\ <<pc, outcome, ret, exit_code, wait_start>>'
                      = <<pc, outcome, ret, exit_code, wait_start>>
     ]_vars

\* pacman was resolved as timed out, its task delivered records afterwards
\* and finished, and the ResultSet was returned without them
C13_Witness ==
    /\ outcome["pacman"].arm = "timeout"
    /\ sent["pacman"].kind = "ok"
    /\ sent["pacman"].late
    /\ sent["pacman"].recs # <<>>
    /\ task["pacman"] = "done"
    /\ ret.set
    /\ ret.val[1] = <<>>

\* no wait of search_packages has lasted longer than the bound, and the
\* ResultSet is returned no later than three bounds after the start
BoundedWaits ==
    /\ pc \in SourceSet => now - wait_start <= TIMEOUT
    /\ ret.set =>
          /\ outcome["pacman"].at <= TIMEOUT
          /\ outcome["aur"].at - outcome["pacman"].at <= TIMEOUT
          /\ outcome["flatpak"].at - outcome["aur"].at <= TIMEOUT
          /\ now <= 3 * TIMEOUT

\* C14: the join is bounded by the timeout. Once search_packages waits for
\* its sources it eventually returns its ResultSet, whatever the three tasks
\* do and even if none of them ever completes, and no wait lasts longer than
\* the per-source bound.
C14_BoundedJoin ==
    /\ []BoundedWaits
    /\ (pc \in SourceSet) ~> ret.set

\* none of the three tasks ever delivered or stopped, and search_packages
\* returned three empty sequences at the third deadline
C14_Witness ==
    /\ ret.set
    /\ \A s \in SourceSet :
          /\ outcome[s].arm = "timeout"
          /\ sent[s].kind = "none"
          /\ task[s] \notin {"done", "crashed"}
    /\ outcome["flatpak"].at = 3 * TIMEOUT
    /\ ret.val = <<<<>>, <<>>, <<>>>>

\* the well-formed blocks among the entries, in order
RECURSIVE WellFormed(_)
WellFormed(its) ==
    IF its = <<>> THEN <<>>
    ELSE (IF Head(its).kind = "block" THEN <<Head(its)>> ELSE <<>>)
            \o WellFormed(Tail(its))

ItemRecord(it) == PackageInfo(it.text.name, it.text.ver, it.text.desc)

\* C15: a line that cannot be turned into a record is skipped alone. A
\* package line without version text yields no record and the well-formed
\* blocks before and after it yield their records unchanged; a store row
\* with fewer than 4 fields yields no record and the other rows theirs.
C15_AnomalySkipped ==
    /\ (items # <<>> /\ (which = "pacman" \/ (which = "aur" /\ items[1].repo = <<"a", "u", "r">>)))
          => records = [i \in 1..Len(WellFormed(items)) |-> ItemRecord(WellFormed(items)[i])]
    /\ which = "flatpak" =>
          \A k \in 1..Len(records) :
              \E i \in 2..Len(StoreLines) :
                  /\ TabCount(StoreLines[i]) >= 3
                  /\ records[k] = StoreRecord(StoreLines[i])

====
